---- MODULE Spec2Model ----
(***************************************************************************)
(* Model of the AutoWeave agent weaver (src/src/core/agent-weaver.js):     *)
(* workflow synthesis from a description, name sanitization, the retry     *)
(* loop around the completion service and contract generation.             *)
(*                                                                         *)
(* JavaScript strings are sequences of one-character strings.  JavaScript  *)
(* values are records tagged by a field t.                                 *)
(***************************************************************************)
EXTENDS Integers, Sequences, FiniteSets, TLC

VARIABLES mockMode, initState, inv, san, enh, autoweave, sockets, orchestrator

vars == <<mockMode, initState, inv, san, enh, autoweave, sockets, orchestrator>>

(***************************************************************************)
(* Characters.  One representative per class the code distinguishes.       *)
(***************************************************************************)
LowerLetters == {"a", "b"}
Digits == {"0"}
UpperLetters == {"A"}
Hyphen == "-"
Space == " "
OtherChars == {"!"}

Alphabet == LowerLetters \cup Digits \cup UpperLetters \cup {Hyphen, Space} \cup OtherChars

\* the character class [a-z0-9] of the regular expressions
AlnumChars == LowerLetters \cup Digits

\* the character class [a-z0-9-] (also written [-a-z0-9])
NameChars == AlnumChars \cup {Hyphen}

Min(a, b) == IF a < b THEN a ELSE b

Repeat(c, n) == [i \in 1..n |-> c]

\* String.prototype.toLowerCase on one character
LowerChar(c) == IF c = "A" THEN "a" ELSE c

toLowerCase(s) == [i \in 1..Len(s) |-> LowerChar(s[i])]

\* .replace(/[^a-z0-9-]/g, '-')
ReplaceInvalidChars(s) == [i \in 1..Len(s) |-> IF s[i] \in NameChars THEN s[i] ELSE Hyphen]

\* a character paired with the one before it
WithPrevious(s) == [i \in 1..Len(s) |-> <<s[i], IF i = 1 THEN "" ELSE s[i - 1]>>]

StartsRun(pair) == ~(pair[1] = Hyphen /\ pair[2] = Hyphen)

\* .replace(/-+/g, '-'): every run of hyphens becomes one hyphen
CollapseHyphens(s) ==
    LET kept == SelectSeq(WithPrevious(s), StartsRun)
    IN  [i \in 1..Len(kept) |-> kept[i][1]]

\* .replace(/^-|-$/g, ''): one hyphen off the start, one off the end
StripEdgeHyphens(s) ==
    LET noLead == IF Len(s) > 0 /\ s[1] = Hyphen THEN SubSeq(s, 2, Len(s)) ELSE s
    IN  IF Len(noLead) > 0 /\ noLead[Len(noLead)] = Hyphen
        THEN SubSeq(noLead, 1, Len(noLead) - 1)
        ELSE noLead

\* the Kubernetes limit of sanitizeName
KubernetesNameLimit == 63

\* .substring(0, n)
substring(s, n) == SubSeq(s, 1, Min(n, Len(s)))

sanitizeNameNoTruncate(name) ==
    StripEdgeHyphens(CollapseHyphens(ReplaceInvalidChars(toLowerCase(name))))

\* AgentWeaver.sanitizeName
sanitizeName(name) ==
    substring(StripEdgeHyphens(CollapseHyphens(ReplaceInvalidChars(toLowerCase(name)))),
              KubernetesNameLimit)

\* /^[a-z0-9]([-a-z0-9]*[a-z0-9])?$/.test(name)
MatchesKubernetesName(name) ==
    /\ Len(name) >= 1
    /\ name[1] \in AlnumChars
    /\ name[Len(name)] \in AlnumChars
    /\ \A i \in 1..Len(name) : name[i] \in NameChars

(***************************************************************************)
(* JavaScript values and errors.                                           *)
(***************************************************************************)
Undefined == [t |-> "undefined"]
Null == [t |-> "null"]
Str(s) == [t |-> "string", v |-> s]
Num(n) == [t |-> "number", v |-> n]
Arr(items) == [t |-> "array", v |-> items]
\* a plain object with no own properties the code reads
EmptyObject == [t |-> "object"]
\* a value whose conversion to a string throws: a Symbol, or an object whose
\* toString is not callable, such as JSON.parse('{"toString":null}')
SymbolValue == [t |-> "symbol"]

\* ToBoolean, as used by !x and x || y
Truthy(x) ==
    /\ x.t \notin {"undefined", "null"}
    /\ ~(x.t = "string" /\ x.v = <<>>)
    /\ ~(x.t = "number" /\ x.v = 0)

\* x.length === 0 (only strings and arrays have a length)
LengthIsZero(x) == x.t \in {"string", "array"} /\ Len(x.v) = 0

\* messages are sequences of words
Error(msg) == [name |-> "Error", message |-> msg, field |-> "none"]
TypeError(msg) == [name |-> "TypeError", message |-> msg, field |-> "none"]
ValidationError(msg, field) == [name |-> "ValidationError", message |-> msg, field |-> field]

Returned(v) == [ok |-> TRUE, value |-> v]
Thrown(e) == [ok |-> FALSE, error |-> e]

\* a template literal `${x}` throws a TypeError when x cannot be converted
TemplateThrows(x) == x.t = "symbol"

(***************************************************************************)
(* Validator (the validation utilities appended to agent-weaver.js).       *)
(***************************************************************************)
MinDescriptionLength == 20
MaxDescriptionLength == 1000

validateAgentDescriptionExclusive(description) ==
    IF description.t \in {"null", "undefined"}
    THEN Thrown(ValidationError(<<"Description", "is", "required">>, "description"))
    ELSE IF description.t # "string"
    THEN Thrown(ValidationError(<<"Description", "is", "required">>, "description"))
    ELSE IF Len(description.v) < MinDescriptionLength
    THEN Thrown(ValidationError(<<"Description", "must", "be", "at", "least", "20">>, "description"))
    ELSE IF Len(description.v) >= MaxDescriptionLength
    THEN Thrown(ValidationError(<<"Description", "must", "be", "less", "than", "1000">>, "description"))
    ELSE Returned(TRUE)

\* Validator.validateAgentDescription
validateAgentDescription(description) ==
    IF description.t \in {"null", "undefined"}
    THEN Thrown(ValidationError(<<"Description", "is", "required">>, "description"))
    ELSE IF description.t # "string"
    THEN Thrown(ValidationError(<<"Description", "is", "required">>, "description"))
    ELSE IF Len(description.v) < MinDescriptionLength
    THEN Thrown(ValidationError(<<"Description", "must", "be", "at", "least", "20">>, "description"))
    ELSE IF Len(description.v) > MaxDescriptionLength
    THEN Thrown(ValidationError(<<"Description", "must", "be", "less", "than", "1000">>, "description"))
    ELSE Returned(TRUE)

\* Validator.validateKubernetesName
validateKubernetesName(name) ==
    IF ~MatchesKubernetesName(name)
    THEN Thrown(ValidationError(<<"Invalid", "Kubernetes", "name">>, "kubernetesName"))
    ELSE Returned(TRUE)

(***************************************************************************)
(* Workflows.  A workflow is a record of six JavaScript values.            *)
(***************************************************************************)
Workflow(id, name, description, requiredModules, steps, modelConfig) ==
    [id |-> id, name |-> name, description |-> description,
     requiredModules |-> requiredModules, steps |-> steps, modelConfig |-> modelConfig]

DefaultModelConfig == [t |-> "object", name |-> "gpt-4", temperature |-> "0.7"]

\* the ids `agent-${Date.now()}-${Math.random()...}` can take
GeneratedIds == {Str(<<"a", "1">>), Str(<<"a", "2">>)}

validateAndEnhanceWorkflowNoModuleCheck(workflow, originalDescription, freshId) ==
    LET id == IF ~Truthy(workflow.id) THEN freshId ELSE workflow.id
        description == IF ~Truthy(workflow.description) THEN originalDescription
                       ELSE workflow.description
    IN  IF ~Truthy(workflow.name)
        THEN Thrown(Error(<<"Workflow", "must", "have", "a", "name">>))
        ELSE IF workflow.name.t # "string"
        THEN Thrown(TypeError(<<"name.toLowerCase", "is", "not", "a", "function">>))
        ELSE LET name == sanitizeName(workflow.name.v)
                 steps == IF ~Truthy(workflow.steps) THEN Arr(<<>>) ELSE workflow.steps
                 modelConfig == IF ~Truthy(workflow.modelConfig) THEN DefaultModelConfig
                                ELSE workflow.modelConfig
                 checked == validateKubernetesName(name)
             IN  IF ~checked.ok THEN checked
                 ELSE Returned(Workflow(id, Str(name), description,
                                        workflow.requiredModules, steps, modelConfig))

\* AgentWeaver.validateAndEnhanceWorkflow; freshId is the id generated when
\* the workflow has none
validateAndEnhanceWorkflow(workflow, originalDescription, freshId) ==
    LET id == IF ~Truthy(workflow.id) THEN freshId ELSE workflow.id
        description == IF ~Truthy(workflow.description) THEN originalDescription
                       ELSE workflow.description
    IN  IF ~Truthy(workflow.name)
        THEN Thrown(Error(<<"Workflow", "must", "have", "a", "name">>))
        ELSE IF ~Truthy(workflow.requiredModules) \/ LengthIsZero(workflow.requiredModules)
        THEN Thrown(Error(<<"Workflow", "must", "have", "at", "least", "one", "required", "module">>))
        ELSE IF workflow.name.t # "string"
        THEN Thrown(TypeError(<<"name.toLowerCase", "is", "not", "a", "function">>))
        ELSE LET name == sanitizeName(workflow.name.v)
                 steps == IF ~Truthy(workflow.steps) THEN Arr(<<>>) ELSE workflow.steps
                 modelConfig == IF ~Truthy(workflow.modelConfig) THEN DefaultModelConfig
                                ELSE workflow.modelConfig
                 checked == validateKubernetesName(name)
             IN  IF ~checked.ok THEN checked
                 ELSE Returned(Workflow(id, Str(name), description,
                                        workflow.requiredModules, steps, modelConfig))

\* the index of the first space of s, 0 when there is none
FirstSpace(s) ==
    LET at == {i \in 1..Len(s) : s[i] = Space}
    IN  IF at = {} THEN 0 ELSE CHOOSE i \in at : \A j \in at : i <= j

RECURSIVE split(_)
\* description.split(' ')
split(s) ==
    LET i == FirstSpace(s)
    IN  IF i = 0 THEN <<s>>
        ELSE <<SubSeq(s, 1, i - 1)>> \o split(SubSeq(s, i + 1, Len(s)))

\* .slice(0, n)
slice(xs, n) == SubSeq(xs, 1, Min(n, Len(xs)))

RECURSIVE join(_, _)
\* .join(sep)
join(words, sep) ==
    IF Len(words) = 0 THEN <<>>
    ELSE IF Len(words) = 1 THEN words[1]
    ELSE words[1] \o sep \o join(Tail(words), sep)

MockModule == [name |-> "file-reader", type |-> "file_system",
               description |-> "Read files from filesystem"]
MockStep == [action |-> "process_files", description |-> "Process files based on description"]

\* generateMockWorkflow with the random suffix of the id also put in the name
generateMockWorkflowRandomName(description, freshId) ==
    Workflow(freshId,
             Str(sanitizeName(join(slice(split(description.v), 3), <<Hyphen>>))
                 \o <<Hyphen>> \o freshId.v),
             description, Arr(<<MockModule>>), Arr(<<MockStep>>), DefaultModelConfig)

\* AgentWeaver.generateMockWorkflow; freshId is the generated id
generateMockWorkflow(description, freshId) ==
    Workflow(freshId,
             Str(sanitizeName(join(slice(split(description.v), 3), <<Hyphen>>))),
             description, Arr(<<MockModule>>), Arr(<<MockStep>>), DefaultModelConfig)

(***************************************************************************)
(* Contracts (OpenAPI documents).  A contract is a record of six           *)
(* JavaScript values; info, components and schemas are objects when        *)
(* present.                                                                *)
(***************************************************************************)
Contract(openapi, info, servers, paths, components, security) ==
    [openapi |-> openapi, info |-> info, servers |-> servers, paths |-> paths,
     components |-> components, security |-> security]

Info(title, version, description, agentId, agentName, agentType, anpVersion) ==
    [t |-> "object", title |-> title, version |-> version, description |-> description,
     xAgentId |-> agentId, xAgentName |-> agentName, xAgentType |-> agentType,
     xAnpVersion |-> anpVersion]

EmptyInfo == Info(Undefined, Undefined, Undefined, Undefined, Undefined, Undefined, Undefined)

Components(securitySchemes, schemas) ==
    [t |-> "object", securitySchemes |-> securitySchemes, schemas |-> schemas]

\* components.schemas: the Error and Success entries and the names of the others
Schemas(error, success, others) ==
    [t |-> "object", Error |-> error, Success |-> success, others |-> others]

\* an object given by the names of its keys
Keys(names) == [t |-> "object", keys |-> names]

Or(x, y) == IF Truthy(x) THEN x ELSE y

\* a string literal of the source, kept whole
Lit(text) == [t |-> "string", v |-> <<text>>]

\* `${workflow.name} Agent API`
AgentApiTitle(workflow) == [t |-> "string", v |-> <<" Agent API">>, name |-> workflow.name]

\* `http://localhost:3000/api/agents/${workflow.id}`
DefaultServers(workflow, label) ==
    Arr(<<[url |-> workflow.id, description |-> label]>>)

DefaultSecuritySchemes == Keys({"apiKey", "bearerAuth"})
DefaultSecurity == Arr(<<"apiKey", "bearerAuth">>)
ErrorSchema == [t |-> "object", properties |-> <<"error", "code", "timestamp">>,
                required |-> <<"error", "timestamp">>]
SuccessSchema == [t |-> "object", properties |-> <<"success", "data", "timestamp">>,
                  required |-> <<"success", "timestamp">>]

\* assigning a property of x throws in strict mode unless x is an object
IsObject(x) == x.t \in {"object", "array"}

\* the servers section with the default server pushed on every call
EnsureServersPushing(spec, workflow) ==
    Arr((IF Truthy(spec.servers) /\ spec.servers.t = "array" THEN spec.servers.v ELSE <<>>)
        \o DefaultServers(workflow, "AutoWeave Agent API").v)

\* enhanceOpenAPISpec, "Ensure servers section"
EnsureServers(spec, workflow) ==
    IF ~Truthy(spec.servers) \/ LengthIsZero(spec.servers)
    THEN DefaultServers(workflow, "AutoWeave Agent API")
    ELSE spec.servers

\* AgentWeaver.enhanceOpenAPISpec
enhanceOpenAPISpec(spec, workflow) ==
    LET info0 == IF ~Truthy(spec.info) THEN EmptyInfo ELSE spec.info
        components0 == IF ~Truthy(spec.components) THEN Components(Undefined, Undefined)
                       ELSE spec.components
    IN  IF ~IsObject(info0) \/ ~IsObject(components0)
        THEN Thrown(TypeError(<<"Cannot", "create", "property">>))
        ELSE LET info == Info(Or(info0.title, AgentApiTitle(workflow)),
                              Or(info0.version, Lit("1.0.0")),
                              Or(info0.description, workflow.description),
                              workflow.id, workflow.name,
                              Lit("autoweave-agent"), Lit("1.0.0"))
                 schemes == IF ~Truthy(components0.securitySchemes)
                            THEN DefaultSecuritySchemes ELSE components0.securitySchemes
                 schemas0 == IF ~Truthy(components0.schemas)
                             THEN Schemas(Undefined, Undefined, {}) ELSE components0.schemas
             IN  IF ~IsObject(schemas0)
                 THEN Thrown(TypeError(<<"Cannot", "create", "property">>))
                 ELSE Returned(Contract(
                        Or(spec.openapi, Lit("3.1.0")),
                        info,
                        EnsureServers(spec, workflow),
                        spec.paths,
                        Components(schemes, Schemas(ErrorSchema, SuccessSchema, schemas0.others)),
                        IF ~Truthy(spec.security) THEN DefaultSecurity ELSE spec.security))

\* the rules of validateANPCompliance a contract violates, in the code's order
ANPErrors(spec) ==
    (IF ~Truthy(spec.info.xAgentId) THEN <<"Missing x-agent-id in info section">> ELSE <<>>)
    \o (IF ~Truthy(spec.info.xAgentName) THEN <<"Missing x-agent-name in info section">> ELSE <<>>)
    \o (IF ~Truthy(spec.info.xAnpVersion) THEN <<"Missing x-anp-version in info section">> ELSE <<>>)
    \o (IF ~Truthy(spec.paths) THEN <<"No paths defined in specification">> ELSE <<>>)
    \o (IF ~Truthy(spec.components) \/ ~Truthy(spec.components.securitySchemes)
        THEN <<"No security schemes defined">> ELSE <<>>)

\* validateANPCompliance throwing at the first rule a contract violates
validateANPComplianceFirstOnly(spec) ==
    IF Len(ANPErrors(spec)) > 0
    THEN Thrown(Error(<<"ANP", "compliance", "validation", "failed:">>
                      \o <<Head(ANPErrors(spec))>>))
    ELSE Returned(TRUE)

\* AgentWeaver.validateANPCompliance
validateANPCompliance(spec) ==
    IF Len(ANPErrors(spec)) > 0
    THEN Thrown(Error(<<"ANP", "compliance", "validation", "failed:">> \o ANPErrors(spec)))
    ELSE Returned(TRUE)

\* validateOpenAPISpec with a catch block that returns false and throws nothing
validateOpenAPISpecReturningFalse(spec, parserOutcome) ==
    LET checked == IF ~parserOutcome.ok THEN parserOutcome ELSE validateANPCompliance(spec)
    IN  Returned(checked.ok)

\* AgentWeaver.validateOpenAPISpec, resumed with the outcome of
\* SwaggerParser.validate
validateOpenAPISpec(spec, parserOutcome) ==
    LET checked == IF ~parserOutcome.ok THEN parserOutcome ELSE validateANPCompliance(spec)
    IN  IF checked.ok THEN Returned(TRUE)
        ELSE Thrown(Error(<<"Invalid", "OpenAPI", "specification:">> \o checked.error.message))

HealthPath == [path |-> "/health", method |-> "get", operationId |-> "getHealth"]
ExecutePath == [path |-> "/execute", method |-> "post", operationId |-> "executeWorkflow"]

\* generateMockOpenAPISpec with a fixed agent id in place of the workflow's
generateMockOpenAPISpecFixedId(workflow) ==
    Contract(Lit("3.1.0"),
             Info(AgentApiTitle(workflow), Lit("1.0.0"), workflow.description,
                  Lit("mock-agent"), workflow.name, Lit("autoweave-agent"), Lit("1.0.0")),
             DefaultServers(workflow, "AutoWeave Agent API (Mock)"),
             [t |-> "object", routes |-> <<HealthPath, ExecutePath>>],
             Components(DefaultSecuritySchemes, Schemas(ErrorSchema, SuccessSchema, {})),
             DefaultSecurity)

\* AgentWeaver.generateMockOpenAPISpec
generateMockOpenAPISpec(workflow) ==
    Contract(Lit("3.1.0"),
             Info(AgentApiTitle(workflow), Lit("1.0.0"), workflow.description,
                  workflow.id, workflow.name, Lit("autoweave-agent"), Lit("1.0.0")),
             DefaultServers(workflow, "AutoWeave Agent API (Mock)"),
             [t |-> "object", routes |-> <<HealthPath, ExecutePath>>],
             Components(DefaultSecuritySchemes, Schemas(ErrorSchema, SuccessSchema, {})),
             DefaultSecurity)

\* what reading operationId gives on a path-item entry that has none
NoOperationId == "undefined"

\* the keys of a path item that are HTTP methods
HttpMethods == {"get", "put", "post", "delete", "options", "head", "patch", "trace"}

\* method.toUpperCase()
toUpperCase(key) ==
    CASE key = "get" -> "GET" [] key = "put" -> "PUT" [] key = "post" -> "POST"
      [] key = "delete" -> "DELETE" [] key = "options" -> "OPTIONS" [] key = "head" -> "HEAD"
      [] key = "patch" -> "PATCH" [] key = "trace" -> "TRACE"
      [] key = "servers" -> "SERVERS" [] key = "parameters" -> "PARAMETERS"
      [] key = "summary" -> "SUMMARY" [] key = "description" -> "DESCRIPTION"
      [] OTHER -> key

\* the keys of a path item getOpenAPICapabilities skips
SkippedKeys == {"parameters", "summary", "description"}

\* getOpenAPICapabilities, the test of the inner forEach
IsListed(entry) == entry.method \notin SkippedKeys

\* Object.keys(spec.components?.schemas || {}), as a set
SchemaNames(spec) ==
    IF ~Truthy(spec.components) \/ ~Truthy(spec.components.schemas) THEN {}
    ELSE {n \in {"Error", "Success"} : spec.components.schemas[n] # Undefined}
         \cup spec.components.schemas.others

\* AgentWeaver.getOpenAPICapabilities, from the contract generateOpenAPISpec
\* returned; the entries of the path items are in paths.routes, in order
Capabilities(spec) ==
    LET listed == IF ~Truthy(spec.paths) THEN <<>> ELSE SelectSeq(spec.paths.routes, IsListed)
    IN  [t |-> "object",
         endpoints |-> [i \in DOMAIN listed |->
                          [path |-> listed[i].path, method |-> toUpperCase(listed[i].method),
                           operationId |-> listed[i].operationId]],
         schemas |-> SchemaNames(spec),
         security |-> IF ~Truthy(spec.security) THEN Arr(<<>>) ELSE spec.security,
         operations |-> [i \in DOMAIN listed |-> listed[i].operationId]]

(***************************************************************************)
(* The completion service and the retry policy.                            *)
(***************************************************************************)
RECURSIVE includes(_, _)
\* message.includes(words): the words occur next to each other in the message
includes(message, words) ==
    IF Len(message) < Len(words) THEN FALSE
    ELSE IF SubSeq(message, 1, Len(words)) = words THEN TRUE
    ELSE includes(Tail(message), words)

shouldRetryNever(error) == FALSE

shouldRetryAlways(error) == TRUE

\* shouldRetry: (error) => error.message.includes('rate limit')
shouldRetry(error) == includes(error.message, <<"rate", "limit">>)

MaxAttemptsPlusOne == 3 + 1

\* maxAttempts of both withRetry calls
MaxAttempts == 3

\* RetryHelper.withRetry after the attempt numbered attempt failed with error:
\* TRUE when it waits and runs the operation again, FALSE when it raises error
withRetryRetries(attempt, error) ==
    shouldRetry(error) /\ attempt < MaxAttempts

\* what a call of openai.chat.completions.create can do: throw, or return a
\* response without choices, or with a content that is no JSON, or JSON
Unparseable == [t |-> "text"]
NoChoices == [t |-> "noChoices"]
Json(value) == [t |-> "json", value |-> value]
Threw(error) == [t |-> "threw", error |-> error]

ServiceErrors == {Error(<<"rate", "limit", "exceeded">>),
                  Error(<<"429", "rate", "limit", "reached">>),
                  Error(<<"connection", "refused">>)}

InvalidWorkflowStructure == Error(<<"Invalid", "workflow", "structure", "generated">>)
InvalidOpenAPISpecification == Error(<<"Invalid", "OpenAPI", "specification", "generated">>)

\* a JSON value the code can read and write properties of
IsRecordValue(value) == value.t = "record"

\* AgentWeaver.processDescription, resumed with what the completion call did
processDescription(completion, description, freshId) ==
    IF completion.t = "threw" THEN Thrown(completion.error)
    ELSE IF completion.t = "noChoices"
    THEN Thrown(TypeError(<<"Cannot", "read", "properties", "of", "undefined">>))
    ELSE IF completion.t = "text" THEN Thrown(InvalidWorkflowStructure)
    ELSE IF ~IsRecordValue(completion.value) THEN Thrown(InvalidWorkflowStructure)
    ELSE LET r == validateAndEnhanceWorkflow(completion.value.fields, description, freshId)
         IN  IF r.ok THEN r ELSE Thrown(InvalidWorkflowStructure)

\* AgentWeaver.processWorkflowToOpenAPI, resumed with what the completion call did
processWorkflowToOpenAPI(completion, workflow) ==
    IF completion.t = "threw" THEN Thrown(completion.error)
    ELSE IF completion.t = "noChoices"
    THEN Thrown(TypeError(<<"Cannot", "read", "properties", "of", "undefined">>))
    ELSE IF completion.t = "text" THEN Thrown(InvalidOpenAPISpecification)
    ELSE IF ~IsRecordValue(completion.value) THEN Thrown(InvalidOpenAPISpecification)
    ELSE LET r == enhanceOpenAPISpec(completion.value.fields, workflow)
         IN  IF r.ok THEN r ELSE Thrown(InvalidOpenAPISpecification)

\* a parsed JSON object, with the fields the code reads
Record(fields) == [t |-> "record", fields |-> fields]

(***************************************************************************)
(* Inputs.                                                                 *)
(***************************************************************************)
\* head followed by the character c up to length n
Pad(head, n, c) == head \o Repeat(c, n - Len(head))

DescriptionHeads ==
    {<<>>,
     <<"a", " ", "A", "!", " ", "b", " ", "b", " ">>,
     <<"!", " ", "-", " ", " ", "!", " ">>,
     <<"0", "-", " ", "-", "b", " ">>,
     Repeat("a", KubernetesNameLimit - 1) \o <<"-", "b", " ", "b">>,
     Repeat("a", KubernetesNameLimit + 1) \o <<" ", "b">>}

DescriptionLengths ==
    {0, MinDescriptionLength - 1, MinDescriptionLength,
     MaxDescriptionLength, MaxDescriptionLength + 1}

FillChars == {"a", "!"}

DescriptionStrings ==
    {Pad(x[1], x[2], x[3]) :
        x \in {y \in DescriptionHeads \X DescriptionLengths \X FillChars : Len(y[1]) <= y[2]}}

\* the values generateWorkflow is called with
Descriptions ==
    {Undefined, Null, Num(5), EmptyObject, SymbolValue} \cup {Str(d) : d \in DescriptionStrings}

\* the most modules a generated workflow lists
MaxModules == 2

RawNames ==
    {Undefined, Num(5), Str(<<>>), Str(<<"a", "b">>), Str(<<"A", " ", "!", "b">>),
     Str(<<"!", "-">>), Str(Repeat("a", KubernetesNameLimit - 1) \o <<"-", "b">>)}

RawModules ==
    {Undefined, Null, EmptyObject} \cup {Arr(Repeat(MockModule, n)) : n \in 0..MaxModules}

\* the fields a generated workflow may leave out together
RawOptionals ==
    {[id |-> Undefined, description |-> Undefined, steps |-> Undefined, modelConfig |-> Undefined],
     [id |-> Str(<<"i">>), description |-> Undefined, steps |-> Arr(<<MockStep>>),
      modelConfig |-> Undefined],
     [id |-> Str(<<"i">>), description |-> Str(<<"d">>), steps |-> Arr(<<MockStep>>),
      modelConfig |-> [t |-> "object", name |-> "gpt-3.5", temperature |-> "0.2"]]}

\* the objects a completion can hold for generateWorkflow
RawWorkflows ==
    {Workflow(o.id, name, o.description, modules, o.steps, o.modelConfig) :
        o \in RawOptionals, name \in RawNames, modules \in RawModules}

OtherPath == [path |-> "/files", method |-> "get", operationId |-> "listFiles"]

DraftInfos ==
    {Undefined, Lit("info"),
     Info(Lit("Title"), Undefined, Lit("About"), Lit("other-id"), Undefined, Undefined, Undefined)}

DraftPaths ==
    {Undefined, [t |-> "object", routes |-> <<>>], [t |-> "object", routes |-> <<OtherPath>>]}

DraftComponents ==
    {Undefined, Components(Undefined, Undefined),
     Components(Keys({"oauth"}),
                Schemas([t |-> "object", properties |-> <<"message">>, required |-> <<>>],
                        Undefined, {"Item"}))}

\* the fields a generated contract may leave out together
DraftOptionals ==
    {[openapi |-> Undefined, servers |-> Undefined, security |-> Undefined],
     [openapi |-> Lit("3.0.0"), servers |-> Arr(<<>>), security |-> Undefined],
     [openapi |-> Lit("3.0.0"),
      servers |-> Arr(<<[url |-> Lit("https://example"), description |-> "Remote"]>>),
      security |-> Arr(<<"oauth">>)]}

\* the objects a completion can hold for generateOpenAPISpec
DraftSpecs ==
    {Contract(o.openapi, info, o.servers, paths, components, o.security) :
        o \in DraftOptionals, info \in DraftInfos, paths \in DraftPaths,
        components \in DraftComponents}

\* what a completion call can do whatever the prompt
CommonCompletions ==
    {Threw(e) : e \in ServiceErrors} \cup {NoChoices, Unparseable, Json(Null), Json(Num(5))}

WorkflowCompletions == CommonCompletions \cup {Json(Record(r)) : r \in RawWorkflows}

ContractCompletions == CommonCompletions \cup {Json(Record(r)) : r \in DraftSpecs}

\* what a completion call can do
Completions(op) == IF op = "generateWorkflow" THEN WorkflowCompletions ELSE ContractCompletions

\* the workflows generateOpenAPISpec is called with
ContractWorkflows ==
    {Null,
     Record(Workflow(Str(<<"i">>), Str(<<"a", "b">>), Str(<<"d">>), Arr(<<MockModule>>),
                     Arr(<<MockStep>>), DefaultModelConfig)),
     Record(Workflow(Undefined, Str(<<"A", "!">>), Undefined, Arr(<<>>), Undefined, Undefined))}

SchemaErrors == {Error(<<"Schema", "is", "not", "valid">>)}

(***************************************************************************)
(* The synthesizer as a state machine.                                     *)
(*   mockMode   AgentWeaver.mockMode (undefined reads as FALSE)            *)
(*   initState  where AgentWeaver.initialize() is                          *)
(*   inv        the invocations of generateWorkflow / generateOpenAPISpec: *)
(*              op, the argument, the branch taken at the mockMode test,   *)
(*              the attempts of withRetry, the completion calls made, what *)
(*              each call did, and the outcome once pc is returned/raised  *)
(***************************************************************************)
\* the variables of the pure-function runs, where they are not used
SanUnused == [pc |-> "unused", input |-> <<>>, once |-> <<>>, twice |-> <<>>]
EnhUnused == [pc |-> "unused", draft |-> Undefined, workflow |-> Undefined,
              once |-> Undefined, twice |-> Undefined]

(***************************************************************************)
(* The AutoWeave object of autoweave.js, the WebSocket connections of      *)
(* index.js and the orchestrator of config-intelligence.js, as constructed.*)
(* A Map is a function from its possible keys to a value, NotRegistered or *)
(* NoEntry standing for an absent key.                                     *)
(***************************************************************************)
ClientIds == {"10.0.0.1", "10.0.0.2"}

Sockets == {"ws1", "ws2"}

NotRegistered == "undefined"

AutoWeaveConstructed ==
    [isInitialized |-> FALSE, agentService |-> "null", server |-> "null",
     aguiClients |-> [c \in ClientIds |-> NotRegistered],
     initialize |-> "idle", shutdown |-> "idle",
     call |-> [op |-> "none", outcome |-> "none", service |-> "null"]]

NoSockets ==
    [s \in Sockets |-> [readyState |-> "none", clientId |-> "none", event |-> "none",
                        pc |-> "idle", failed |-> FALSE, received |-> <<>>]]

AgentIds == {"agent-a", "agent-b"}

Requests == {"r1", "r2"}

NoEntry == "undefined"

OrchestratorConstructed ==
    [createdWorkflows |-> [i \in AgentIds |-> NoEntry],
     deployedAgents |-> [i \in AgentIds |-> NoEntry],
     requests |-> [r \in Requests |-> [op |-> "none", pc |-> "idle", id |-> "none",
                                       status |-> "none"]]]

Idle == [op |-> "none", pc |-> "idle", arg |-> Undefined, mock |-> FALSE, attempt |-> 0,
         calls |-> 0, log |-> <<>>, draft |-> Undefined, schema |-> Returned(Undefined),
         outcome |-> Returned(Undefined), capabilities |-> Undefined]

Init ==
    /\ mockMode = FALSE
    /\ initState = "constructed"
    /\ inv = [p \in {1} |-> Idle]
    /\ san = SanUnused
    /\ enh = EnhUnused
    /\ autoweave = AutoWeaveConstructed
    /\ sockets = NoSockets
    /\ orchestrator = OrchestratorConstructed

\* initialize clearing the mode before it tests the connection
InitializeResetting(testEnv) ==
    /\ initState \in {"constructed", "ready", "failed"}
    /\ IF testEnv
       THEN mockMode' = TRUE /\ initState' = "ready"
       ELSE mockMode' = FALSE /\ initState' = "connecting"
    /\ UNCHANGED <<inv, san, enh, autoweave, sockets, orchestrator>>

\* AgentWeaver.initialize up to its first await; nothing keeps a caller
\* from calling it again once it has settled
Initialize(testEnv) ==
    /\ initState \in {"constructed", "ready", "failed"}
    /\ IF testEnv
       THEN mockMode' = TRUE /\ initState' = "ready"
       ELSE mockMode' = mockMode /\ initState' = "connecting"
    /\ UNCHANGED <<inv, san, enh, autoweave, sockets, orchestrator>>

\* openai.models.list() resolved
ConnectionVerified ==
    /\ initState = "connecting"
    /\ initState' = "ready"
    /\ UNCHANGED <<mockMode, inv, san, enh, autoweave, sockets, orchestrator>>

\* openai.models.list() rejected; invalidKey: the error code is
\* invalid_api_key or the configured key includes 'test'
ConnectionFailed(invalidKey) ==
    /\ initState = "connecting"
    /\ IF invalidKey
       THEN mockMode' = TRUE /\ initState' = "ready"
       ELSE mockMode' = mockMode /\ initState' = "failed"
    /\ UNCHANGED <<inv, san, enh, autoweave, sockets, orchestrator>>

\* AgentWeaver.generateWorkflow up to its return or its first completion call
generateWorkflow(p, description, freshId) ==
    /\ inv[p].pc = "idle"
    /\ LET checked == validateAgentDescription(description)
           started == [inv[p] EXCEPT !.op = "generateWorkflow", !.arg = description,
                                     !.mock = mockMode]
       IN  IF TemplateThrows(description)
           THEN inv' = [inv EXCEPT ![p] = [started EXCEPT !.pc = "raised",
                    !.outcome = Thrown(TypeError(<<"Cannot", "convert", "to", "string">>))]]
           ELSE IF ~checked.ok
           THEN inv' = [inv EXCEPT ![p] = [started EXCEPT !.pc = "raised", !.outcome = checked]]
           ELSE IF mockMode
           THEN inv' = [inv EXCEPT ![p] = [started EXCEPT !.pc = "returned",
                    !.outcome = Returned(generateMockWorkflow(description, freshId))]]
           ELSE inv' = [inv EXCEPT ![p] = [started EXCEPT !.pc = "awaiting",
                    !.attempt = 1, !.calls = 1]]
    /\ UNCHANGED <<mockMode, initState, san, enh, autoweave, sockets, orchestrator>>

\* AgentWeaver.generateOpenAPISpec up to its return or its first completion call
generateOpenAPISpec(p, workflow) ==
    /\ inv[p].pc = "idle"
    /\ LET started == [inv[p] EXCEPT !.op = "generateOpenAPISpec", !.arg = workflow,
                                     !.mock = mockMode]
       IN  IF ~IsRecordValue(workflow)
           THEN inv' = [inv EXCEPT ![p] = [started EXCEPT !.pc = "raised",
                    !.outcome = Thrown(TypeError(<<"Cannot", "read", "properties", "of", "null">>))]]
           ELSE IF mockMode
           THEN inv' = [inv EXCEPT ![p] = [started EXCEPT !.pc = "returned",
                    !.outcome = Returned(generateMockOpenAPISpec(workflow.fields))]]
           ELSE inv' = [inv EXCEPT ![p] = [started EXCEPT !.pc = "awaiting",
                    !.attempt = 1, !.calls = 1]]
    /\ UNCHANGED <<mockMode, initState, san, enh, autoweave, sockets, orchestrator>>

\* the pending completion call settles: the attempt of withRetry ends, and
\* withRetry returns its value, raises its error or starts the delay
CompletionSettles(p, completion, freshId) ==
    /\ inv[p].pc = "awaiting"
    /\ LET r == IF inv[p].op = "generateWorkflow"
                THEN processDescription(completion, inv[p].arg, freshId)
                ELSE processWorkflowToOpenAPI(completion, inv[p].arg.fields)
           logged == [inv[p] EXCEPT !.log = Append(@, completion)]
       IN  IF r.ok
           THEN IF inv[p].op = "generateWorkflow"
                THEN inv' = [inv EXCEPT ![p] = [logged EXCEPT !.pc = "returned", !.outcome = r]]
                ELSE inv' = [inv EXCEPT ![p] = [logged EXCEPT !.pc = "validating",
                                                              !.draft = r.value]]
           ELSE IF withRetryRetries(inv[p].attempt, r.error)
           THEN inv' = [inv EXCEPT ![p] = [logged EXCEPT !.pc = "delay"]]
           ELSE inv' = [inv EXCEPT ![p] = [logged EXCEPT !.pc = "raised", !.outcome = r]]
    /\ UNCHANGED <<mockMode, initState, san, enh, autoweave, sockets, orchestrator>>

\* withRetry waiting on a delay that never resolves
RetryDelayNeverResolves(p) ==
    /\ inv[p].pc = "delay"
    /\ UNCHANGED vars

\* withRetry counting its attempts in one counter shared by all invocations
RetryDelayElapsedSharedCounter(p) ==
    /\ inv[p].pc = "delay"
    /\ inv' = [q \in DOMAIN inv |->
                 IF q = p
                 THEN [inv[q] EXCEPT !.pc = "awaiting", !.attempt = @ + 1, !.calls = @ + 1]
                 ELSE [inv[q] EXCEPT !.attempt = IF inv[q].calls > 0 THEN @ + 1 ELSE @]]
    /\ UNCHANGED <<mockMode, initState, san, enh, autoweave, sockets, orchestrator>>

\* the delay of withRetry elapsed: the next attempt calls the completion service
RetryDelayElapsed(p) ==
    /\ inv[p].pc = "delay"
    /\ inv' = [inv EXCEPT ![p].pc = "awaiting", ![p].attempt = @ + 1, ![p].calls = @ + 1]
    /\ UNCHANGED <<mockMode, initState, san, enh, autoweave, sockets, orchestrator>>

\* SwaggerParser.validate settled: the rest of validateOpenAPISpec and of
\* generateOpenAPISpec
SchemaValidationSettles(p, parserOutcome) ==
    /\ inv[p].pc = "validating"
    /\ LET checked == validateOpenAPISpec(inv[p].draft, parserOutcome)
           seen == [inv EXCEPT ![p].schema = parserOutcome]
       IN  IF checked.ok
           THEN inv' = [seen EXCEPT ![p].pc = "returned", ![p].outcome = Returned(inv[p].draft)]
           ELSE inv' = [seen EXCEPT ![p].pc = "raised", ![p].outcome = checked]
    /\ UNCHANGED <<mockMode, initState, san, enh, autoweave, sockets, orchestrator>>

Next ==
    \/ \E testEnv \in BOOLEAN : Initialize(testEnv)
    \/ ConnectionVerified
    \/ \E invalidKey \in BOOLEAN : ConnectionFailed(invalidKey)
    \/ \E p \in DOMAIN inv, d \in Descriptions, id \in GeneratedIds : generateWorkflow(p, d, id)
    \/ \E p \in DOMAIN inv, w \in ContractWorkflows : generateOpenAPISpec(p, w)
    \/ \E p \in DOMAIN inv, id \in GeneratedIds :
          \E c \in Completions(inv[p].op) : CompletionSettles(p, c, id)
    \/ \E p \in DOMAIN inv : RetryDelayElapsed(p)
    \/ \E p \in DOMAIN inv :
          \E o \in {Returned(TRUE)} \cup {Thrown(e) : e \in SchemaErrors} :
             SchemaValidationSettles(p, o)

Spec == Init /\ [][Next]_vars

(***************************************************************************)
(* Inputs of the sanitization runs: head . a^k . tail, with every short    *)
(* head and tail over the alphabet and k around the 63-character limit.    *)
(***************************************************************************)
MaxHead == 1
MaxTail == 2

StringsUpTo(n) == UNION {[1..k -> Alphabet] : k \in 0..n}

BodyLengths == {0, 1, KubernetesNameLimit - 3, KubernetesNameLimit - 2,
                KubernetesNameLimit - 1, KubernetesNameLimit, KubernetesNameLimit + 1}

SanitizeInputs ==
    {h \o Repeat("a", k) \o t : h \in StringsUpTo(MaxHead), k \in BodyLengths,
                                t \in StringsUpTo(MaxTail)}

SanInit ==
    /\ mockMode = FALSE
    /\ initState = "constructed"
    /\ inv = <<>>
    /\ \E s \in SanitizeInputs : san = [pc |-> "input", input |-> s, once |-> <<>>, twice |-> <<>>]
    /\ enh = EnhUnused
    /\ autoweave = AutoWeaveConstructed
    /\ sockets = NoSockets
    /\ orchestrator = OrchestratorConstructed

\* name = sanitizeName(input)
SanitizeOnce ==
    /\ san.pc = "input"
    /\ san' = [san EXCEPT !.pc = "once", !.once = sanitizeName(san.input)]
    /\ UNCHANGED <<mockMode, initState, inv, enh, autoweave, sockets, orchestrator>>

\* sanitizeName applied to an already sanitized name
SanitizeTwice ==
    /\ san.pc = "once"
    /\ san' = [san EXCEPT !.pc = "twice", !.twice = sanitizeName(san.once)]
    /\ UNCHANGED <<mockMode, initState, inv, enh, autoweave, sockets, orchestrator>>

SanNext == SanitizeOnce \/ SanitizeTwice

SpecSanitize == SanInit /\ [][SanNext]_vars

(***************************************************************************)
(* Runs of enhanceOpenAPISpec on every draft a completion can hold, and    *)
(* again on its own result.                                                *)
(***************************************************************************)
EnhanceWorkflows == {w.fields : w \in {x \in ContractWorkflows : IsRecordValue(x)}}

EnhInit ==
    /\ mockMode = FALSE
    /\ initState = "constructed"
    /\ inv = <<>>
    /\ san = SanUnused
    /\ \E d \in DraftSpecs, w \in EnhanceWorkflows :
          enh = [pc |-> "input", draft |-> d, workflow |-> w,
                 once |-> Undefined, twice |-> Undefined]
    /\ autoweave = AutoWeaveConstructed
    /\ sockets = NoSockets
    /\ orchestrator = OrchestratorConstructed

\* once = enhanceOpenAPISpec(draft, workflow)
EnhanceOnce ==
    /\ enh.pc = "input"
    /\ enh' = [enh EXCEPT !.pc = "once", !.once = enhanceOpenAPISpec(enh.draft, enh.workflow)]
    /\ UNCHANGED <<mockMode, initState, inv, san, autoweave, sockets, orchestrator>>

\* enhanceOpenAPISpec applied to the contract it returned
EnhanceTwice ==
    /\ enh.pc = "once"
    /\ enh.once.ok
    /\ enh' = [enh EXCEPT !.pc = "twice",
                          !.twice = enhanceOpenAPISpec(enh.once.value, enh.workflow)]
    /\ UNCHANGED <<mockMode, initState, inv, san, autoweave, sockets, orchestrator>>

EnhNext == EnhanceOnce \/ EnhanceTwice

SpecEnhance == EnhInit /\ [][EnhNext]_vars

(***************************************************************************)
(* The synthesizer in offline mode, with two invocations side by side.     *)
(* It starts where initialize() leaves a synthesizer in a test             *)
(* environment: mockMode set, no call made yet.                            *)
(***************************************************************************)
\* the workflows the offline generateOpenAPISpec is called with: those of the
\* online runs and the workflows generateMockWorkflow returns
OfflineContractWorkflows ==
    ContractWorkflows \cup
    {Record(generateMockWorkflow(d, id)) :
        d \in {x \in Descriptions : validateAgentDescription(x).ok}, id \in GeneratedIds}

OffInit ==
    /\ mockMode = TRUE
    /\ initState = "ready"
    /\ inv = [p \in {1, 2} |-> Idle]
    /\ san = SanUnused
    /\ enh = EnhUnused
    /\ autoweave = AutoWeaveConstructed
    /\ sockets = NoSockets
    /\ orchestrator = OrchestratorConstructed

OffNext ==
    \/ \E p \in DOMAIN inv, d \in Descriptions, id \in GeneratedIds : generateWorkflow(p, d, id)
    \/ \E p \in DOMAIN inv, w \in OfflineContractWorkflows : generateOpenAPISpec(p, w)

SpecOffline == OffInit /\ [][OffNext]_vars

(***************************************************************************)
(* The lifetime of a synthesizer: two invocations started at any time      *)
(* before, during or after initialize().  Online calls stay pending.       *)
(***************************************************************************)
LifecycleDescriptions == {Undefined, Str(Repeat("a", MinDescriptionLength))}

LifeInit ==
    /\ mockMode = FALSE
    /\ initState = "constructed"
    /\ inv = [p \in {1, 2} |-> Idle]
    /\ san = SanUnused
    /\ enh = EnhUnused
    /\ autoweave = AutoWeaveConstructed
    /\ sockets = NoSockets
    /\ orchestrator = OrchestratorConstructed

LifeNext ==
    \/ \E testEnv \in BOOLEAN : Initialize(testEnv)
    \/ ConnectionVerified
    \/ \E invalidKey \in BOOLEAN : ConnectionFailed(invalidKey)
    \/ \E p \in DOMAIN inv, d \in LifecycleDescriptions, id \in GeneratedIds :
          generateWorkflow(p, d, id)
    \/ \E p \in DOMAIN inv, w \in ContractWorkflows : generateOpenAPISpec(p, w)

SpecLifecycle == LifeInit /\ [][LifeNext]_vars

(***************************************************************************)
(* Two online invocations with different inputs, interleaved at every      *)
(* await: the completion calls, the retry delays and the schema            *)
(* validation of one settle between those of the other.                    *)
(***************************************************************************)
ConcurrentDescriptions ==
    {Str(Repeat("a", MinDescriptionLength)), Str(Repeat("b", MinDescriptionLength))}

ConcurrentErrors == {Error(<<"rate", "limit", "exceeded">>), Error(<<"connection", "refused">>)}

ConcurrentWorkflowCompletions ==
    {Threw(e) : e \in ConcurrentErrors} \cup {Unparseable} \cup
    {Json(Record(Workflow(Undefined, Str(<<"a", "b">>), Undefined, modules, Undefined, Undefined))) :
        modules \in {Arr(<<>>), Arr(<<MockModule>>)}}

ConcurrentContractCompletions ==
    {Threw(e) : e \in ConcurrentErrors} \cup {Unparseable} \cup
    {Json(Record(Contract(Undefined, Undefined, Undefined, paths, Undefined, Undefined))) :
        paths \in {Undefined, [t |-> "object", routes |-> <<OtherPath>>]}}

\* the pending completion call of invocation p settles
ConcCompletionSettles(p) ==
    \E id \in GeneratedIds :
       \E c \in IF inv[p].op = "generateWorkflow" THEN ConcurrentWorkflowCompletions
                 ELSE ConcurrentContractCompletions :
          CompletionSettles(p, c, id)

ConcNext ==
    \/ \E p \in DOMAIN inv, d \in ConcurrentDescriptions, id \in GeneratedIds :
          generateWorkflow(p, d, id)
    \/ \E p \in DOMAIN inv, w \in ContractWorkflows : generateOpenAPISpec(p, w)
    \/ \E p \in DOMAIN inv : ConcCompletionSettles(p)
    \/ \E p \in DOMAIN inv : RetryDelayElapsed(p)
    \/ \E p \in DOMAIN inv :
          \E o \in {Returned(TRUE)} \cup {Thrown(e) : e \in SchemaErrors} :
             SchemaValidationSettles(p, o)

SpecConcurrent == LifeInit /\ [][ConcNext]_vars

\* every completion call returns or fails, every retry delay elapses and
\* every schema validation settles: none of them waits on the program
ConcFairness ==
    \A p \in {1, 2} :
        /\ WF_vars(ConcCompletionSettles(p))
        /\ WF_vars(RetryDelayElapsed(p))
        /\ WF_vars(\E o \in {Returned(TRUE)} \cup {Thrown(e) : e \in SchemaErrors} :
                     SchemaValidationSettles(p, o))

SpecTermination == LifeInit /\ [][ConcNext]_vars /\ ConcFairness

(***************************************************************************)
(* getOpenAPICapabilities: generateOpenAPISpec on the workflow, then the   *)
(* projection of the contract it returned.                                 *)
(***************************************************************************)
\* path items with several operations, a parameters list and a servers list
CapabilityPaths ==
    {[t |-> "object", routes |-> <<OtherPath>>],
     [t |-> "object",
      routes |-> <<[path |-> "/files", method |-> "parameters", operationId |-> NoOperationId],
                   OtherPath,
                   [path |-> "/files", method |-> "post", operationId |-> "addFile"],
                   [path |-> "/jobs", method |-> "delete", operationId |-> NoOperationId]>>],
     [t |-> "object",
      routes |-> <<[path |-> "/files", method |-> "servers", operationId |-> NoOperationId],
                   OtherPath>>]}

CapabilityCompletions ==
    {Threw(e) : e \in ConcurrentErrors} \cup {Unparseable} \cup
    {Json(Record(Contract(Undefined, Undefined, Undefined, paths, components, security))) :
        paths \in CapabilityPaths, components \in DraftComponents,
        security \in {Undefined, Arr(<<"oauth">>)}}

\* the rest of getOpenAPICapabilities once generateOpenAPISpec has returned
\* (when it raised, getOpenAPICapabilities rethrows the error)
CapabilitiesExtracted(p) ==
    /\ inv[p].op = "generateOpenAPISpec"
    /\ inv[p].pc = "returned"
    /\ inv[p].capabilities = Undefined
    /\ inv' = [inv EXCEPT ![p].capabilities = Capabilities(inv[p].outcome.value)]
    /\ UNCHANGED <<mockMode, initState, san, enh, autoweave, sockets, orchestrator>>

CapNext ==
    \/ \E testEnv \in BOOLEAN : Initialize(testEnv)
    \/ ConnectionVerified
    \/ \E invalidKey \in BOOLEAN : ConnectionFailed(invalidKey)
    \/ \E p \in DOMAIN inv, w \in ContractWorkflows : generateOpenAPISpec(p, w)
    \/ \E p \in DOMAIN inv, c \in CapabilityCompletions, id \in GeneratedIds :
          CompletionSettles(p, c, id)
    \/ \E p \in DOMAIN inv : RetryDelayElapsed(p)
    \/ \E p \in DOMAIN inv :
          \E o \in {Returned(TRUE)} \cup {Thrown(e) : e \in SchemaErrors} :
             SchemaValidationSettles(p, o)
    \/ \E p \in DOMAIN inv : CapabilitiesExtracted(p)

SpecCapabilities == Init /\ [][CapNext]_vars

(***************************************************************************)
(* generateConfiguration (config-intelligence.js): analyzeIntent calls     *)
(* generateWorkflow on the intent, generateOptimalConfig calls it again on *)
(* the enriched description.  The texts of the template are written by     *)
(* the classes of their characters: "a" a lower-case letter, "A" an        *)
(* upper-case letter, "0" a digit, "!" any other character.                *)
(***************************************************************************)
\* ' using versions: '
UsingVersions ==
    <<Space, "a", "a", "a", "a", "a", Space, "a", "a", "a", "a", "a", "a", "a",
      "a", "!", Space>>

\* '. Apply GitOps, security best practices, and observability.'
ApplyPractices ==
    <<"!", Space, "A", "a", "a", "a", "a", Space, "A", "a", "a", "A", "a", "a",
      "!", Space, "a", "a", "a", "a", "a", "a", "a", "a", Space, "a", "a", "a",
      "a", Space, "a", "a", "a", "a", "a", "a", "a", "a", "a", "!", Space, "a",
      "a", "a", Space, "a", "a", "a", "a", "a", "a", "a", "a", "a", "a", "a", "a",
      "a", "!">>

\* JSON.stringify(freshVersionSummary): {"docker":"latest","helm":"latest"}
\* when no version was found, {"docker":"7.2","helm":"latest"} with one
VersionSummaries ==
    {<<"!", "!", "a", "a", "a", "a", "a", "a", "!", "!", "!", "a", "a", "a", "a",
       "a", "a", "!", "!", "!", "a", "a", "a", "a", "!", "!", "!", "a", "a", "a",
       "a", "a", "a", "!", "!">>,
     <<"!", "!", "a", "a", "a", "a", "a", "a", "!", "!", "!", "0", "!", "0", "!",
       "!", "!", "a", "a", "a", "a", "!", "!", "!", "a", "a", "a", "a", "a", "a",
       "!", "!">>}

\* the template literal of generateOptimalConfig
enrichedDescription(intent, summary) ==
    Str(intent.v \o UsingVersions \o summary \o ApplyPractices)

\* the intents generateConfiguration is called with: no string, and strings
\* of three words with lengths at the limits of both length checks
ConfigurationIntents ==
    {Undefined} \cup
    {Str(Pad(<<"a", Space, "b", Space>>, n, "a")) :
        n \in {MinDescriptionLength - 1, MinDescriptionLength,
               MaxDescriptionLength - Len(UsingVersions \o ApplyPractices) - 35,
               MaxDescriptionLength - Len(UsingVersions \o ApplyPractices) - 31,
               MaxDescriptionLength}}

\* generateConfiguration up to the first await of analyzeIntent
AnalyzeIntent(intent, freshId) ==
    /\ inv[2].pc = "idle"
    /\ generateWorkflow(1, intent, freshId)

\* analyzeIntent returned; identifyComponents, findFreshVersions and
\* enrichContext gave the version summary; generateOptimalConfig up to the
\* first await of its generateWorkflow call
GenerateOptimalConfig(summary, freshId) ==
    /\ inv[1].op = "generateWorkflow"
    /\ inv[1].pc = "returned"
    /\ generateWorkflow(2, enrichedDescription(inv[1].arg, summary), freshId)

ConfNext ==
    \/ \E testEnv \in BOOLEAN : Initialize(testEnv)
    \/ ConnectionVerified
    \/ \E invalidKey \in BOOLEAN : ConnectionFailed(invalidKey)
    \/ \E intent \in ConfigurationIntents, id \in GeneratedIds : AnalyzeIntent(intent, id)
    \/ \E summary \in VersionSummaries, id \in GeneratedIds : GenerateOptimalConfig(summary, id)
    \/ \E p \in DOMAIN inv : ConcCompletionSettles(p)
    \/ \E p \in DOMAIN inv : RetryDelayElapsed(p)

SpecConfiguration == LifeInit /\ [][ConfNext]_vars

(***************************************************************************)
(* The AG-UI WebSocket server: connections register under a client id,     *)
(* each delivers one input event, and the asynchronous handlers settle     *)
(* after the dispatch returned.                                            *)
(***************************************************************************)
AGUIEvent(type, content) == [type |-> type, content |-> content]

\* sendAGUIEvent(event, targetClientId) with a target: the socket registered
\* under the id receives the event when it is open
sendAGUIEvent(socks, clients, event, targetClientId) ==
    IF clients[targetClientId] # NotRegistered
    THEN IF socks[clients[targetClientId]].readyState = "open"
         THEN [socks EXCEPT ![clients[targetClientId]].received = Append(@, event)]
         ELSE socks
    ELSE socks

\* wss.on('connection'): addAGUIClient(clientId, ws), then the welcome message
Connection(ws, clientId) ==
    /\ sockets[ws].readyState = "none"
    /\ autoweave' = [autoweave EXCEPT !.aguiClients[clientId] = ws]
    /\ sockets' = [sockets EXCEPT ![ws].readyState = "open", ![ws].clientId = clientId,
                                  ![ws].received = <<AGUIEvent("chat", "welcome")>>]
    /\ UNCHANGED <<mockMode, initState, inv, san, enh, orchestrator>>

\* ws.on('close') and ws.on('error'): removeAGUIClient(clientId)
ConnectionClosed(ws) ==
    /\ sockets[ws].readyState \in {"open", "closing"}
    /\ autoweave' = [autoweave EXCEPT !.aguiClients[sockets[ws].clientId] = NotRegistered]
    /\ sockets' = [sockets EXCEPT ![ws].readyState = "closed"]
    /\ UNCHANGED <<mockMode, initState, inv, san, enh, orchestrator>>

InputEvents ==
    {"malformed", "null", "unknown-type", "chat-empty", "chat", "chat-create-agent",
     "input-create-agent", "input-other", "command-list-agents", "command-get-metrics",
     "command-unknown"}

\* the input events whose handler awaits a service before it answers
AwaitingEvents == {"chat", "input-create-agent", "command-list-agents", "command-get-metrics"}

\* the input events that the dispatch itself rejects
RejectedEvents == {"malformed", "null", "unknown-type", "chat-empty", "command-unknown"}

\* handleAGUIInput(clientId, event) up to the first await of the handler it calls
handleAGUIInput(socks, clients, clientId, event) ==
    CASE event = "null" ->
           sendAGUIEvent(socks, clients, AGUIEvent("error", "Error processing your request"),
                         clientId)
      [] event = "unknown-type" ->
           sendAGUIEvent(socks, clients, AGUIEvent("error", "Unknown event type"), clientId)
      [] event = "chat-empty" ->
           sendAGUIEvent(socks, clients, AGUIEvent("error", "No message content provided"),
                         clientId)
      [] event = "chat" ->
           sendAGUIEvent(socks, clients, AGUIEvent("chat", "Processing"), clientId)
      [] event = "chat-create-agent" ->
           sendAGUIEvent(sendAGUIEvent(socks, clients, AGUIEvent("chat", "Processing"),
                                       clientId),
                         clients, AGUIEvent("display", "form"), clientId)
      [] event = "input-create-agent" ->
           sendAGUIEvent(socks, clients, AGUIEvent("chat", "Creating agent"), clientId)
      [] event = "command-unknown" ->
           sendAGUIEvent(socks, clients, AGUIEvent("error", "Unknown command"), clientId)
      [] OTHER -> socks

\* ws.on('message'): JSON.parse, then handleAGUIInput; a parse error is answered
\* on the socket itself
Message(ws, event) ==
    /\ sockets[ws].readyState = "open"
    /\ sockets[ws].event = "none"
    /\ LET noted == [sockets EXCEPT ![ws].event = event,
                                    ![ws].pc = IF event \in AwaitingEvents THEN "pending"
                                               ELSE "done",
                                    ![ws].failed = event \in RejectedEvents]
       IN sockets' = IF event = "malformed"
                     THEN [noted EXCEPT ![ws].received =
                               Append(@, AGUIEvent("error", "Invalid JSON format"))]
                     ELSE handleAGUIInput(noted, autoweave.aguiClients,
                                          sockets[ws].clientId, event)
    /\ UNCHANGED <<mockMode, initState, inv, san, enh, autoweave, orchestrator>>

\* what handleAGUIChatInput, handleAGUIUserInput and handleAGUICommand do once
\* the awaited service call has settled
HandlerContinues(socks, clients, clientId, event, fulfilled) ==
    CASE event = "chat" ->
           sendAGUIEvent(socks, clients,
                         AGUIEvent("chat", IF fulfilled THEN "response" ELSE "error"), clientId)
      [] event = "input-create-agent" ->
           IF fulfilled
           THEN sendAGUIEvent(sendAGUIEvent(socks, clients, AGUIEvent("display", "success"),
                                            clientId),
                              clients, AGUIEvent("chat", "created"), clientId)
           ELSE sendAGUIEvent(socks, clients, AGUIEvent("display", "error"), clientId)
      [] event = "command-list-agents" ->
           IF fulfilled
           THEN sendAGUIEvent(socks, clients, AGUIEvent("display", "table"), clientId)
           ELSE socks
      [] event = "command-get-metrics" ->
           IF fulfilled
           THEN sendAGUIEvent(socks, clients, AGUIEvent("display", "json"), clientId)
           ELSE socks
      [] OTHER -> socks

HandlerSettles(ws, fulfilled) ==
    /\ sockets[ws].pc = "pending"
    /\ sockets' = HandlerContinues([sockets EXCEPT ![ws].pc = "done", ![ws].failed = ~fulfilled],
                                   autoweave.aguiClients, sockets[ws].clientId,
                                   sockets[ws].event, fulfilled)
    /\ UNCHANGED <<mockMode, initState, inv, san, enh, autoweave, orchestrator>>

AGUINext ==
    \/ \E ws \in Sockets, clientId \in ClientIds : Connection(ws, clientId)
    \/ \E ws \in Sockets : ConnectionClosed(ws)
    \/ \E ws \in Sockets, event \in InputEvents : Message(ws, event)
    \/ \E ws \in Sockets, fulfilled \in BOOLEAN : HandlerSettles(ws, fulfilled)

SpecAGUI == Init /\ [][AGUINext]_vars

(***************************************************************************)
(* The life of the AutoWeave object: initialize() awaits its components    *)
(* one after the other, shutdown() tears them down, and the public agent   *)
(* methods may be called at any moment.  The components other than the     *)
(* synthesizer settle either way.                                          *)
(***************************************************************************)
InitializeSteps ==
    <<"mcpDiscovery", "agentWeaver", "memoryManager", "uiAgent", "agentService",
      "integrationAgentModule", "mcpServer">>

ShutdownSteps == <<"agentService", "mcpDiscovery", "agentWeaver", "memoryManager", "uiAgent">>

StepAfter(steps, step) ==
    LET i == CHOOSE k \in DOMAIN steps : steps[k] = step
    IN  IF i = Len(steps) THEN "done" ELSE steps[i + 1]

\* AutoWeave.initialize up to its first await, mcpDiscovery.start()
AutoWeaveInitialize ==
    /\ autoweave.initialize = "idle"
    /\ autoweave' = [autoweave EXCEPT !.initialize = "mcpDiscovery"]
    /\ UNCHANGED <<mockMode, initState, inv, san, enh, sockets, orchestrator>>

\* the step initialize() awaits has settled, and initialize() runs on to its next
\* await, to its end or to its catch; mcpStarts: mcpServer.start() does not throw
InitializeStepSettles(fulfilled, testEnv, mcpStarts) ==
    /\ autoweave.initialize \in {"mcpDiscovery", "memoryManager", "uiAgent", "agentService",
                                 "integrationAgentModule", "mcpServer"}
    /\ LET step == autoweave.initialize
       IN  autoweave' =
             IF step = "mcpDiscovery"
             THEN [autoweave EXCEPT !.initialize = "agentWeaver"]
             ELSE IF ~fulfilled
             THEN [autoweave EXCEPT !.initialize = "failed"]
             ELSE IF step = "uiAgent"
             THEN [autoweave EXCEPT !.agentService = "constructed",
                                    !.initialize = "agentService"]
             ELSE IF step = "agentService"
             THEN [autoweave EXCEPT !.agentService = "initialized",
                                    !.initialize = "integrationAgentModule"]
             ELSE IF step = "mcpServer"
             THEN [autoweave EXCEPT !.server = IF testEnv THEN @ ELSE "listening",
                                    !.isInitialized = mcpStarts,
                                    !.initialize = IF mcpStarts THEN "done" ELSE "failed"]
             ELSE [autoweave EXCEPT !.initialize = StepAfter(InitializeSteps, step)]
    /\ UNCHANGED <<mockMode, initState, inv, san, enh, sockets, orchestrator>>

\* agentWeaver.initialize() is called when initialize() reaches it
AgentWeaverInitializes(testEnv) ==
    /\ autoweave.initialize = "agentWeaver"
    /\ initState = "constructed"
    /\ Initialize(testEnv)

\* agentWeaver.initialize() has settled
AgentWeaverSettles ==
    /\ autoweave.initialize = "agentWeaver"
    /\ initState \in {"ready", "failed"}
    /\ autoweave' = [autoweave EXCEPT !.initialize = IF initState = "ready" THEN "memoryManager"
                                                     ELSE "failed"]
    /\ UNCHANGED <<mockMode, initState, inv, san, enh, sockets, orchestrator>>

\* a client connects to the listening server
ClientConnects(ws, clientId) ==
    /\ autoweave.server = "listening"
    /\ Connection(ws, clientId)

\* AutoWeave.shutdown up to its first await
AutoWeaveShutdown ==
    /\ autoweave.shutdown = "idle"
    /\ autoweave.initialize \in {"done", "failed"}
    /\ sockets' = [ws \in Sockets |->
                     IF /\ sockets[ws].readyState = "open"
                        /\ autoweave.aguiClients[sockets[ws].clientId] = ws
                     THEN [sockets[ws] EXCEPT !.readyState = "closing"]
                     ELSE sockets[ws]]
    /\ autoweave' = [autoweave EXCEPT
                        !.aguiClients = [c \in ClientIds |-> NotRegistered],
                        !.server = IF @ = "null" THEN @ ELSE "closed",
                        !.shutdown = IF autoweave.agentService = "null" THEN "mcpDiscovery"
                                     ELSE "agentService"]
    /\ UNCHANGED <<mockMode, initState, inv, san, enh, orchestrator>>

\* the step shutdown() awaits has settled; agentWeaver.shutdown() only logs
ShutdownStepSettles(fulfilled) ==
    /\ autoweave.shutdown \in {"agentService", "mcpDiscovery", "agentWeaver", "memoryManager",
                               "uiAgent"}
    /\ autoweave.shutdown = "agentWeaver" => fulfilled
    /\ autoweave' =
         IF ~fulfilled
         THEN [autoweave EXCEPT !.shutdown = "failed"]
         ELSE [autoweave EXCEPT !.shutdown = StepAfter(ShutdownSteps, autoweave.shutdown),
                                !.isInitialized = IF autoweave.shutdown \in {"memoryManager",
                                                                             "uiAgent"}
                                                  THEN FALSE ELSE @]
    /\ UNCHANGED <<mockMode, initState, inv, san, enh, sockets, orchestrator>>

AgentMethods == {"createAgent", "listAgents", "getAgent", "deleteAgent"}

\* createAgent, listAgents, getAgent, deleteAgent up to the call of the service
AgentMethodCalled(op) ==
    /\ autoweave' = [autoweave EXCEPT !.call =
             [op |-> op,
              outcome |-> IF autoweave.agentService = "null" THEN "raised" ELSE "reached",
              service |-> autoweave.agentService]]
    /\ UNCHANGED <<mockMode, initState, inv, san, enh, sockets, orchestrator>>

SystemNext ==
    \/ AutoWeaveInitialize
    \/ \E fulfilled \in BOOLEAN, testEnv \in BOOLEAN, mcpStarts \in BOOLEAN :
           InitializeStepSettles(fulfilled, testEnv, mcpStarts)
    \/ \E testEnv \in BOOLEAN : AgentWeaverInitializes(testEnv)
    \/ autoweave.initialize = "agentWeaver" /\ ConnectionVerified
    \/ \E invalidKey \in BOOLEAN : autoweave.initialize = "agentWeaver" /\ ConnectionFailed(invalidKey)
    \/ AgentWeaverSettles
    \/ \E ws \in Sockets, clientId \in ClientIds : ClientConnects(ws, clientId)
    \/ \E ws \in Sockets : ConnectionClosed(ws)
    \/ AutoWeaveShutdown
    \/ \E fulfilled \in BOOLEAN : ShutdownStepSettles(fulfilled)
    \/ \E op \in AgentMethods : AgentMethodCalled(op)

SpecSystem == Init /\ [][SystemNext]_vars

(***************************************************************************)
(* The orchestrator of config-intelligence.js: createAndDeployAgent and    *)
(* the DELETE /api/agents/:id handler, each a request that runs from one   *)
(* await to the next.  A map entry holds the request that wrote it.        *)
(***************************************************************************)
CreateSteps == <<"generateWorkflow", "enhanceWithKagentTools", "createAgentWithMemory",
                 "deployAgent", "addAgentMemory">>

\* createAndDeployAgent up to its first await, agentWeaver.generateWorkflow
createAndDeployAgent(r) ==
    /\ orchestrator.requests[r].pc = "idle"
    /\ orchestrator' = [orchestrator EXCEPT !.requests[r].op = "createAndDeployAgent",
                                            !.requests[r].pc = "generateWorkflow"]
    /\ UNCHANGED <<mockMode, initState, inv, san, enh, autoweave, sockets>>

\* the call createAndDeployAgent awaits has settled: it runs on to its next await,
\* to its return or to its catch; workflowId is the id of the generated workflow
CreateStepSettles(r, fulfilled, workflowId) ==
    /\ orchestrator.requests[r].op = "createAndDeployAgent"
    /\ orchestrator.requests[r].pc \in {CreateSteps[k] : k \in DOMAIN CreateSteps}
    /\ LET req == orchestrator.requests[r]
           id == IF req.pc = "generateWorkflow" THEN workflowId ELSE req.id
           next == [req EXCEPT !.pc = StepAfter(CreateSteps, req.pc), !.id = id]
       IN  /\ req.pc # "generateWorkflow" => workflowId = req.id
           /\ orchestrator' =
                IF ~fulfilled
                THEN [orchestrator EXCEPT !.requests[r].pc = "raised",
                                          !.requests[r].status = req.pc]
                ELSE IF req.pc = "generateWorkflow"
                THEN [orchestrator EXCEPT !.createdWorkflows[id] = r, !.requests[r] = next]
                ELSE IF req.pc = "deployAgent"
                THEN [orchestrator EXCEPT !.deployedAgents[id] = r, !.requests[r] = next]
                ELSE IF req.pc = "addAgentMemory"
                THEN [orchestrator EXCEPT !.requests[r].pc = "returned",
                                          !.requests[r].status = "deployed"]
                ELSE [orchestrator EXCEPT !.requests[r] = next]
    /\ UNCHANGED <<mockMode, initState, inv, san, enh, autoweave, sockets>>

\* DELETE /api/agents/:id up to its await of kagentBridge.deleteAgent
DeleteAgentRequested(r, id) ==
    /\ orchestrator.requests[r].pc = "idle"
    /\ orchestrator' = [orchestrator EXCEPT !.requests[r].op = "deleteAgent",
                                            !.requests[r].pc = "deleteAgent",
                                            !.requests[r].id = id]
    /\ UNCHANGED <<mockMode, initState, inv, san, enh, autoweave, sockets>>

\* kagentBridge.deleteAgent has settled: both entries are deleted and 200 is
\* answered, or 500 is answered
DeleteSettles(r, fulfilled) ==
    /\ orchestrator.requests[r].op = "deleteAgent"
    /\ orchestrator.requests[r].pc = "deleteAgent"
    /\ LET id == orchestrator.requests[r].id
       IN  orchestrator' =
             IF fulfilled
             THEN [orchestrator EXCEPT !.createdWorkflows[id] = NoEntry,
                                       !.deployedAgents[id] = NoEntry,
                                       !.requests[r].pc = "returned",
                                       !.requests[r].status = "200"]
             ELSE [orchestrator EXCEPT !.requests[r].pc = "returned",
                                       !.requests[r].status = "500"]
    /\ UNCHANGED <<mockMode, initState, inv, san, enh, autoweave, sockets>>

\* getAgentStatus(agentId): null unless both maps hold the id
getAgentStatus(orch, agentId) ==
    IF orch.createdWorkflows[agentId] = NoEntry \/ orch.deployedAgents[agentId] = NoEntry
    THEN Null
    ELSE Str(<<"s", "t", "a", "t", "u", "s">>)

OrchestratorNext ==
    \/ \E r \in Requests : createAndDeployAgent(r)
    \/ \E r \in Requests, fulfilled \in BOOLEAN, workflowId \in AgentIds :
           CreateStepSettles(r, fulfilled, workflowId)
    \/ \E r \in Requests, id \in AgentIds : DeleteAgentRequested(r, id)
    \/ \E r \in Requests, fulfilled \in BOOLEAN : DeleteSettles(r, fulfilled)

SpecOrchestrator == Init /\ [][OrchestratorNext]_vars

(***************************************************************************)
(* Properties.                                                             *)
(***************************************************************************)
Started(x) == x.op # "none"
IsWorkflowCall(x) == x.op = "generateWorkflow"
IsContractCall(x) == x.op = "generateOpenAPISpec"

ValidLength(d) == d.t = "string" /\ Len(d.v) >= 20 /\ Len(d.v) <= 1000

RaisedDescriptionError(x) ==
    /\ x.pc = "raised"
    /\ x.outcome.error.name = "ValidationError"
    /\ x.outcome.error.field = "description"

\* the errors of the completion service that are rate-limit failures
RateLimitErrors == {Error(<<"rate", "limit", "exceeded">>),
                    Error(<<"429", "rate", "limit", "reached">>)}

RateLimited(completion) == completion.t = "threw" /\ completion.error \in RateLimitErrors

\* what attempt i of invocation x came to, had the id generated been id
AttemptResult(x, i, id) ==
    IF IsWorkflowCall(x) THEN processDescription(x.log[i], x.arg, id)
    ELSE processWorkflowToOpenAPI(x.log[i], x.arg.fields)

AnyId == CHOOSE id \in GeneratedIds : TRUE

\* C1: generateWorkflow on a description that is not a string, or is shorter
\* than 20 or longer than 1000, raises a ValidationError on field
\* 'description' with no completion call, in either mode; lengths 20 and
\* 1000 are not rejected by this check.
C1_InvalidDescriptionRejected ==
    \A p \in DOMAIN inv :
        IsWorkflowCall(inv[p]) =>
            /\ ~ValidLength(inv[p].arg) => RaisedDescriptionError(inv[p]) /\ inv[p].calls = 0
            /\ (inv[p].arg.t = "string" /\ Len(inv[p].arg.v) \in {20, 1000})
                  => ~RaisedDescriptionError(inv[p])

WorkflowInvariant(w) ==
    /\ w.name.t = "string"
    /\ MatchesKubernetesName(w.name.v)
    /\ w.requiredModules.t = "array"
    /\ Len(w.requiredModules.v) >= 1

\* C2: in either mode, every workflow generateWorkflow returns for a string
\* of length in [20,1000] has a name matching the Kubernetes pattern and at
\* least one required module.
C2_ReturnedWorkflowValid ==
    \A p \in DOMAIN inv :
        (IsWorkflowCall(inv[p]) /\ ValidLength(inv[p].arg) /\ inv[p].pc = "returned")
            => WorkflowInvariant(inv[p].outcome.value)

\* C3: the result of sanitizeName neither starts nor ends with a hyphen.
C3_NoEdgeHyphen ==
    (san.pc \in {"once", "twice"} /\ Len(san.once) > 0)
        => san.once[1] # "-" /\ san.once[Len(san.once)] # "-"

\* C4: sanitizeName is idempotent.
C4_SanitizeIdempotent ==
    san.pc = "twice" => san.twice = san.once

\* C5: the result of sanitizeName has at most 63 characters.
C5_AtMost63 ==
    san.pc \in {"once", "twice"} => Len(san.once) <= 63 /\ Len(san.twice) <= 63

C5_Witness ==
    san.pc = "once" /\ Len(san.input) > 63 /\ Len(san.once) = 63

ModulesMissing(w) ==
    w.requiredModules.t \in {"undefined", "null"}
    \/ (w.requiredModules.t = "array" /\ Len(w.requiredModules.v) = 0)

GotRawWorkflow(x, i) ==
    x.log[i].t = "json" /\ x.log[i].value.t = "record"

\* C6: when the completion holds a workflow whose requiredModules is absent
\* or empty, generateWorkflow raises and does not return that workflow.
C6_NoModulesRaises ==
    \A p \in DOMAIN inv :
        IsWorkflowCall(inv[p]) =>
            \A i \in 1..Len(inv[p].log) :
                (GotRawWorkflow(inv[p], i) /\ ModulesMissing(inv[p].log[i].value.fields))
                    => inv[p].pc = "raised" /\ inv[p].outcome.ok = FALSE

C6_Witness ==
    \E p \in DOMAIN inv :
        /\ IsWorkflowCall(inv[p]) /\ inv[p].pc = "raised" /\ Len(inv[p].log) = 1
        /\ GotRawWorkflow(inv[p], 1)
        /\ inv[p].log[1].value.fields.requiredModules = Arr(<<>>)
        /\ inv[p].log[1].value.fields.name = Str(<<"a", "b">>)

\* the first n attempts of x all failed with a rate-limit error
AllRateLimited(x, n) ==
    Len(x.log) >= n /\ \A i \in 1..n : RateLimited(x.log[i])

\* C7: an operation that fails twice with a rate-limit error and succeeds on
\* the third attempt was invoked exactly three times and withRetry returns
\* that success value; a rate-limit failure of the first or second attempt
\* never ends the invocation.
C7_ThirdAttemptSucceeds ==
    \A p \in DOMAIN inv :
        Started(inv[p]) =>
            /\ (Len(inv[p].log) \in {1, 2} /\ AllRateLimited(inv[p], Len(inv[p].log)))
                  => inv[p].pc \in {"delay", "awaiting"}
            /\ (Len(inv[p].log) = 3 /\ AllRateLimited(inv[p], 2)
                    /\ AttemptResult(inv[p], 3, AnyId).ok)
                  => /\ inv[p].calls = 3
                     /\ IsWorkflowCall(inv[p]) =>
                            /\ inv[p].pc = "returned"
                            /\ \E id \in GeneratedIds :
                                  inv[p].outcome = AttemptResult(inv[p], 3, id)
                     /\ IsContractCall(inv[p]) =>
                            /\ inv[p].pc \in {"validating", "returned", "raised"}
                            /\ inv[p].draft = AttemptResult(inv[p], 3, AnyId).value
                            /\ inv[p].pc = "returned" => inv[p].outcome.value = inv[p].draft

C7_Witness ==
    \E p \in DOMAIN inv :
        /\ IsWorkflowCall(inv[p]) /\ inv[p].pc = "returned" /\ inv[p].calls = 3
        /\ AllRateLimited(inv[p], 2)

\* attempt i of x failed with an error that is no rate-limit failure
FatalFailure(x, i) ==
    ~AttemptResult(x, i, AnyId).ok /\ ~RateLimited(x.log[i])

\* C8: an attempt that fails with an error that is not a rate-limit failure
\* (a completion error, an unparseable response, a workflow failing
\* validation) is the last one: no further completion call is made and the
\* error is raised to the caller; when it is the first attempt the operation
\* was invoked exactly once.
C8_FatalErrorNotRetried ==
    \A p \in DOMAIN inv :
        Started(inv[p]) =>
            \A i \in 1..Len(inv[p].log) :
                FatalFailure(inv[p], i)
                    => /\ i = Len(inv[p].log)
                       /\ inv[p].calls = i
                       /\ inv[p].pc = "raised"
                       /\ inv[p].outcome = AttemptResult(inv[p], i, AnyId)

C8_Witness ==
    \E p \in DOMAIN inv :
        /\ IsWorkflowCall(inv[p]) /\ inv[p].pc = "raised" /\ inv[p].calls = 1
        /\ GotRawWorkflow(inv[p], 1)
        /\ inv[p].outcome.error = InvalidWorkflowStructure

\* C9: at most three completion calls are made per invocation, and when all
\* three attempts fail with a rate-limit error the invocation raises the
\* error of the third attempt.
C9_AtMostThreeAttempts ==
    \A p \in DOMAIN inv :
        /\ inv[p].calls <= 3
        /\ AllRateLimited(inv[p], 3)
              => inv[p].pc = "raised" /\ inv[p].outcome = Thrown(inv[p].log[3].error)

C9_Witness ==
    \E p \in DOMAIN inv :
        /\ AllRateLimited(inv[p], 3) /\ inv[p].pc = "raised"
        /\ inv[p].log[3].error # inv[p].log[2].error
        /\ inv[p].log[3].error # inv[p].log[1].error

\* C10: an invocation made in mock mode makes no completion call, and
\* generateWorkflow in mock mode returns for every string of length in
\* [20,1000].
C10_MockModeOffline ==
    \A p \in DOMAIN inv :
        (Started(inv[p]) /\ inv[p].mock) =>
            /\ inv[p].calls = 0
            /\ (IsWorkflowCall(inv[p]) /\ ValidLength(inv[p].arg)) => inv[p].pc = "returned"

C10_Witness ==
    \E p \in DOMAIN inv :
        /\ IsWorkflowCall(inv[p]) /\ inv[p].mock /\ inv[p].pc = "returned"
        /\ Len(inv[p].arg.v) = 1000

\* two offline generateWorkflow calls that returned for the same description
OfflinePair(x, y) ==
    /\ IsWorkflowCall(x) /\ x.mock /\ x.pc = "returned"
    /\ IsWorkflowCall(y) /\ y.mock /\ y.pc = "returned"
    /\ x.arg = y.arg

\* C11 as stated: two offline generateWorkflow calls with the same description
\* return workflows equal in every field, the id included.
C11_OfflineDeterministic ==
    \A p, q \in DOMAIN inv :
        OfflinePair(inv[p], inv[q]) => inv[p].outcome.value = inv[q].outcome.value

\* C11 amended: two offline generateWorkflow calls with the same description
\* return workflows equal in name, description, requiredModules, steps and
\* modelConfig; the id is generated anew for each call.
C11_OfflineDeterministicButId ==
    \A p, q \in DOMAIN inv :
        OfflinePair(inv[p], inv[q]) =>
            LET v == inv[p].outcome.value
                w == inv[q].outcome.value
            IN  /\ v.name = w.name
                /\ v.description = w.description
                /\ v.requiredModules = w.requiredModules
                /\ v.steps = w.steps
                /\ v.modelConfig = w.modelConfig
                /\ v.id \in GeneratedIds /\ w.id \in GeneratedIds

C11_Witness ==
    /\ OfflinePair(inv[1], inv[2])
    /\ inv[1].outcome.value.id # inv[2].outcome.value.id
    /\ Len(inv[1].outcome.value.name.v) > 0

\* C12: enhancing a contract that enhanceOpenAPISpec returned, for the same
\* workflow, returns that contract unchanged.
C12_EnhanceIdempotent ==
    enh.pc = "twice" => enh.twice.ok /\ enh.twice.value = enh.once.value

C12_Witness ==
    /\ enh.pc = "twice"
    /\ enh.draft.info = Undefined /\ enh.draft.servers = Undefined
    /\ enh.draft.components = Undefined
    /\ enh.once.value.info.xAgentName = enh.workflow.name
    /\ enh.once.value # enh.draft

\* the schemas a draft brings along, EmptyObject-like when it brings none
DraftSchemas(draft) ==
    IF Truthy(draft.components) /\ IsObject(draft.components)
       /\ Truthy(draft.components.schemas) /\ IsObject(draft.components.schemas)
    THEN draft.components.schemas
    ELSE Schemas(Undefined, Undefined, {})

\* C13: the enhanced contract carries the Error and the Success schema of
\* the draft when the draft has one, and the standard schema only otherwise.
C13_SchemasInjectedOnlyIfAbsent ==
    enh.pc \in {"once", "twice"} /\ enh.once.ok =>
        LET given == DraftSchemas(enh.draft)
            got == enh.once.value.components.schemas
        IN  /\ got.Error = (IF Truthy(given.Error) THEN given.Error ELSE ErrorSchema)
            /\ got.Success = (IF Truthy(given.Success) THEN given.Success ELSE SuccessSchema)
            /\ got.others = given.others

\* an online generateOpenAPISpec call that returned a contract
ReturnedOnlineContract(x) == IsContractCall(x) /\ ~x.mock /\ x.pc = "returned"

\* the four extension attributes of info and the security schemes are there
HasAgentAttributes(c) ==
    /\ Truthy(c.info.xAgentId) /\ Truthy(c.info.xAgentName)
    /\ Truthy(c.info.xAgentType) /\ Truthy(c.info.xAnpVersion)
    /\ Truthy(c.components.securitySchemes)

\* C14: every contract an online generateOpenAPISpec returns has the four
\* extension attributes in info, at least one route in paths and
\* components.securitySchemes; a draft with an empty paths mapping is never
\* returned.
C14_ReturnedContractCompliant ==
    \A p \in DOMAIN inv :
        ReturnedOnlineContract(inv[p]) =>
            LET c == inv[p].outcome.value
            IN  /\ HasAgentAttributes(c)
                /\ Truthy(c.paths) /\ Len(c.paths.routes) >= 1

\* a generateOpenAPISpec call whose contract went through the compliance
\* check: the generation step succeeded and SwaggerParser.validate accepted
ComplianceChecked(x) ==
    /\ IsContractCall(x) /\ x.pc \in {"returned", "raised"}
    /\ x.draft # Undefined /\ x.schema = Returned(TRUE)

\* the compliance rules: the entry each one reports and whether c violates it
ComplianceRules(c) ==
    {[entry |-> "Missing x-agent-id in info section", violated |-> ~Truthy(c.info.xAgentId)],
     [entry |-> "Missing x-agent-name in info section", violated |-> ~Truthy(c.info.xAgentName)],
     [entry |-> "Missing x-anp-version in info section", violated |-> ~Truthy(c.info.xAnpVersion)],
     [entry |-> "No paths defined in specification", violated |-> ~Truthy(c.paths)],
     [entry |-> "No security schemes defined",
      violated |-> ~Truthy(c.components) \/ ~Truthy(c.components.securitySchemes)]}

ViolatedRules(c) == {r \in ComplianceRules(c) : r.violated}

\* the entries of a compliance error, after the two prefixes of its message
ComplianceEntries(error) == SubSeq(error.message, 8, Len(error.message))

Generated(x) == IsContractCall(x) /\ x.draft # Undefined

\* C16: once the generation step of generateOpenAPISpec has succeeded, no
\* further completion call is made, and a draft that fails the schema
\* validation or the compliance check ends the call with an error, never
\* with a returned contract.
C16_ValidationFailureNotRetried ==
    [][\A p \in DOMAIN inv :
          Generated(inv[p]) =>
              /\ inv'[p].calls = inv[p].calls
              /\ inv'[p].log = inv[p].log
              /\ inv'[p].pc \in {"validating", "returned", "raised"}
              /\ inv[p].pc = "validating" /\ inv'[p].pc # "validating" =>
                    IF ~inv'[p].schema.ok \/ ViolatedRules(inv[p].draft) # {}
                    THEN inv'[p].pc = "raised" /\ ~inv'[p].outcome.ok
                    ELSE inv'[p].pc = "returned"]_vars

C16_Witness ==
    \E p \in DOMAIN inv :
        /\ Generated(inv[p]) /\ inv[p].pc = "raised"
        /\ ~inv[p].schema.ok
        /\ inv[p].calls = 2 /\ Len(inv[p].log) = 2

\* w is a workflow as validateAndEnhanceWorkflow returns them: validating it
\* again succeeds and changes nothing
PassedValidation(w) ==
    LET r == validateAndEnhanceWorkflow(w, w.description, AnyId)
    IN  r.ok /\ r.value = w

\* C17: generateOpenAPISpec makes a completion call or returns a contract,
\* online or offline, only for a workflow that has passed
\* validateAndEnhanceWorkflow.
C17_OnlyValidatedWorkflows ==
    \A p \in DOMAIN inv :
        IsContractCall(inv[p]) /\ (inv[p].calls > 0 \/ inv[p].pc = "returned") =>
            IsRecordValue(inv[p].arg) /\ PassedValidation(inv[p].arg.fields)

\* a call that got as far as the mockMode test of its method
ReachedModeTest(x) ==
    /\ Started(x)
    /\ x.pc # "raised" \/ x.calls > 0

FailedSemanticValidation(x) ==
    /\ IsWorkflowCall(x) /\ x.pc = "raised" /\ Len(x.log) > 0
    /\ LET last == x.log[Len(x.log)]
       IN  /\ last.t = "json" /\ IsRecordValue(last.value)
           /\ ~validateAndEnhanceWorkflow(last.value.fields, x.arg, AnyId).ok

\* what generateWorkflow raises when the completion is no JSON
ParseFailure == processDescription(Unparseable, Undefined, AnyId).error

\* C19: the error generateWorkflow raises for a response that parses but
\* fails the semantic validation is distinct from the error it raises for an
\* unparseable response.
C19_ParseErrorDistinct ==
    \A p \in DOMAIN inv :
        FailedSemanticValidation(inv[p]) =>
            /\ ~inv[p].outcome.ok
            /\ inv[p].outcome.error # ParseFailure

\* an offline generateOpenAPISpec call on a workflow object
OfflineContractCall(x) == IsContractCall(x) /\ x.mock /\ IsRecordValue(x.arg)

\* C20: offline, generateOpenAPISpec returns for every workflow a contract
\* whose paths are exactly the health-check and the execute route, whose info
\* has x-agent-id and x-agent-name equal to the workflow's id and name and all
\* four extension attributes when the workflow has an id and a name, and
\* which has security schemes and the Error and Success schemas.
C20_OfflineContractShape ==
    \A p \in DOMAIN inv :
        OfflineContractCall(inv[p]) =>
            /\ inv[p].pc = "returned" /\ inv[p].calls = 0
            /\ LET c == inv[p].outcome.value
                   w == inv[p].arg.fields
               IN  /\ Len(c.paths.routes) = 2
                   /\ {<<r.path, r.method>> : r \in {c.paths.routes[i] : i \in 1..2}}
                         = {<<"/health", "get">>, <<"/execute", "post">>}
                   /\ c.info.xAgentId = w.id /\ c.info.xAgentName = w.name
                   /\ Truthy(c.info.xAgentType) /\ Truthy(c.info.xAnpVersion)
                   /\ Truthy(w.id) /\ Truthy(w.name) =>
                         Truthy(c.info.xAgentId) /\ Truthy(c.info.xAgentName)
                   /\ Truthy(c.components.securitySchemes)
                   /\ Truthy(c.components.schemas.Error)
                   /\ Truthy(c.components.schemas.Success)

C20_Witness ==
    \E p \in DOMAIN inv :
        /\ OfflineContractCall(inv[p]) /\ inv[p].pc = "returned"
        /\ inv[p].arg.fields.id \in GeneratedIds
        /\ Len(inv[p].arg.fields.name.v) = KubernetesNameLimit
        /\ inv[p].outcome.value.info.xAgentId = inv[p].arg.fields.id

\* invocation x is where it would be had it run alone and met the completions
\* of its own log: every attempt but the last failed with a rate-limit
\* error, one completion call was made per attempt, and what it holds is the
\* result of its last attempt on its own argument
AsIfAlone(x) ==
    LET n == Len(x.log)
    IN  /\ \A i \in 1..(n - 1) : RateLimited(x.log[i])
        /\ x.pc = "awaiting" => x.calls = n + 1 /\ x.attempt = n + 1
        /\ x.pc = "delay" => x.calls = n /\ x.attempt = n /\ RateLimited(x.log[n])
        /\ x.pc \in {"validating", "returned", "raised"} =>
              /\ x.calls = n /\ x.attempt = n
              /\ IsWorkflowCall(x) => \E id \in GeneratedIds : x.outcome = AttemptResult(x, n, id)
              /\ IsContractCall(x) =>
                    LET r == AttemptResult(x, n, AnyId)
                    IN  IF r.ok
                        THEN /\ x.draft = r.value
                             /\ x.pc = "returned" => x.outcome = r
                             /\ x.pc = "raised" => ~x.outcome.ok
                        ELSE x.pc = "raised" /\ x.outcome = r

\* C21: of two invocations interleaved on one synthesizer each step belongs
\* to one invocation and leaves the other as it was, and each invocation has
\* the attempt count, the number of completion calls and the outcome it
\* would have had alone with the same completions.
C21_InvocationsIndependent ==
    [][\A p \in DOMAIN inv :
          /\ inv'[p] # inv[p] => \A q \in DOMAIN inv \ {p} : inv'[q] = inv[q]
          /\ inv'[p].calls > 0 => AsIfAlone(inv'[p])]_vars

C21_Witness ==
    /\ IsWorkflowCall(inv[1]) /\ inv[1].pc = "returned" /\ inv[1].calls = 3
    /\ IsWorkflowCall(inv[2]) /\ inv[2].pc = "raised" /\ inv[2].calls = 1
    /\ inv[1].arg # inv[2].arg
    /\ inv[1].outcome.value.description = inv[1].arg

\* the path/method pairs of a contract, in the order of its path items
PathMethodPairs(c) ==
    SelectSeq(c.paths.routes, LAMBDA entry : entry.method \in HttpMethods)

\* C22: the capabilities returned for a contract have exactly one endpoints
\* entry per path/method pair, with the operationId of that operation, and
\* none for any other key of a path item; operations lists the operationIds
\* of endpoints in order, schemas is the set of names in components.schemas
\* and security is the contract's security list.
C22_CapabilitiesProjectContract ==
    \A p \in DOMAIN inv :
        inv[p].capabilities # Undefined =>
            LET c == inv[p].outcome.value
                caps == inv[p].capabilities
                pairs == PathMethodPairs(c)
            IN  /\ Len(caps.endpoints) = Len(pairs)
                /\ \A i \in DOMAIN pairs :
                      /\ caps.endpoints[i].path = pairs[i].path
                      /\ caps.endpoints[i].method = toUpperCase(pairs[i].method)
                      /\ caps.endpoints[i].operationId = pairs[i].operationId
                /\ Len(caps.operations) = Len(caps.endpoints)
                /\ \A i \in DOMAIN caps.endpoints :
                      caps.operations[i] = caps.endpoints[i].operationId
                /\ caps.schemas = {"Error", "Success"} \cup c.components.schemas.others
                /\ caps.security = c.security

\* C23: provided completion calls settle and retry delays elapse, every
\* generateWorkflow and generateOpenAPISpec invocation eventually returns or
\* raises, whatever its completions do.
C23_RetryLoopTerminates ==
    \A p \in {1, 2} : Started(inv[p]) ~> inv[p].pc \in {"returned", "raised"}

C23_Witness ==
    /\ IsWorkflowCall(inv[1]) /\ inv[1].pc = "raised" /\ AllRateLimited(inv[1], 3)
    /\ IsContractCall(inv[2]) /\ inv[2].pc = "returned" /\ inv[2].calls = 3

\* C24: when a call of generateConfiguration raises a ValidationError on the
\* description, from analyzeIntent or from generateOptimalConfig, it has made
\* no completion call.
C24_LengthRejectedBeforeAnyCall ==
    \A p \in DOMAIN inv :
        RaisedDescriptionError(inv[p]) => \A q \in DOMAIN inv : inv[q].calls = 0

\* C25: in a contract enhanceOpenAPISpec returns, every scheme the global
\* security list names is defined in components.securitySchemes.
C25_SecurityNamesDefinedSchemes ==
    enh.pc \in {"once", "twice"} /\ enh.once.ok =>
        LET c == enh.once.value
        IN  \A i \in DOMAIN c.security.v :
                c.security.v[i] \in c.components.securitySchemes.keys


\* C26: every connection that is still open is the socket registered in
\* aguiClients under its client id
C26_OpenConnectionsRegistered ==
    \A ws \in Sockets :
        sockets[ws].readyState = "open" => autoweave.aguiClients[sockets[ws].clientId] = ws

IsErrorEvent(e) == e.type = "error" \/ e.content = "error"

\* C27: an open client whose input event failed in processing has received an
\* event that reports the error
C27_FailureReportedToClient ==
    \A ws \in Sockets :
        (sockets[ws].readyState = "open" /\ sockets[ws].pc = "done" /\ sockets[ws].failed
            /\ autoweave.aguiClients[sockets[ws].clientId] = ws)
        => \E i \in DOMAIN sockets[ws].received : IsErrorEvent(sockets[ws].received[i])


OpenRegistrations == {c \in ClientIds : autoweave.aguiClients[c] # NotRegistered}

\* C28: isInitialized is true only when initialize() has completed and
\* shutdown() has not started; it is false whenever shutdown() closed the
\* server or cleared the registry; once shutdown() completed it is false and
\* no client is registered
C28_InitializedMeansRunning ==
    /\ autoweave.isInitialized =>
           autoweave.initialize = "done" /\ autoweave.shutdown = "idle"
    /\ autoweave.server = "closed" => ~autoweave.isInitialized
    /\ autoweave.shutdown = "done" =>
           ~autoweave.isInitialized /\ OpenRegistrations = {}

\* C29: an agent method reaches the agent service only when the service's
\* initialize() has completed, and raises otherwise
C29_ServiceReachedOnlyInitialized ==
    /\ autoweave.call.outcome = "reached" => autoweave.call.service = "initialized"
    /\ autoweave.call.outcome = "raised" => autoweave.call.service # "initialized"


DeploymentFails(r) ==
    /\ orchestrator.requests[r].pc = "deployAgent"
    /\ orchestrator'.requests[r].pc = "raised"

KagentDeleteFails(r) ==
    /\ orchestrator.requests[r].pc = "deleteAgent"
    /\ orchestrator'.requests[r].status = "500"

\* C30: after every step of a create or delete request each id of
\* deployedAgents is in createdWorkflows; a create whose deployment fails
\* leaves its workflow in createdWorkflows and getAgentStatus null for it; a
\* delete whose kagent deletion fails leaves both maps as they were
C30_DeployedAreCreated ==
    [][/\ \A i \in AgentIds :
              orchestrator'.deployedAgents[i] # NoEntry
                  => orchestrator'.createdWorkflows[i] # NoEntry
       /\ \A r \in Requests :
              DeploymentFails(r) =>
                  /\ orchestrator'.createdWorkflows[orchestrator.requests[r].id] # NoEntry
                  /\ getAgentStatus(orchestrator', orchestrator.requests[r].id) = Null
       /\ \A r \in Requests :
              KagentDeleteFails(r) =>
                  /\ orchestrator'.createdWorkflows = orchestrator.createdWorkflows
                  /\ orchestrator'.deployedAgents = orchestrator.deployedAgents]_vars

====
